---- MODULE Spec2Model ----
(***************************************************************************)
(* rbase: inference of the load base address of a flat binary image.       *)
(*                                                                         *)
(* The model follows src/src/main.rs: get_strings_by_page_offset,          *)
(* get_addresses_by_page_offset and get_base_address, run by the rayon     *)
(* worker pool over an immutable byte buffer.                              *)
(*                                                                         *)
(* A value of the generic integer type T (u32 or u64) is the sequence of   *)
(* its size_of::<T>() bytes, most significant byte first, so that 64-bit   *)
(* words are exact.  The byte buffer is its length together with the       *)
(* bytes that are not zero; every other byte of the buffer is zero.        *)
(***************************************************************************)
EXTENDS Integers, Sequences, FiniteSets, TLC

(***************************************************************************)
(* Bounds of the model.                                                    *)
(***************************************************************************)
\* thread::available_parallelism() ranges over 1..MaxThreads
MaxThreads == 2

\* the longest run of letters in the 16-byte buffers
MaxRun == 5

\* the number of words of the buffers given to the modules Addresses
MaxWords == 4

(***************************************************************************)
(* Program constants.                                                      *)
(***************************************************************************)
PAGE_OFFSET_MASK == 4095

(***************************************************************************)
(* Arithmetic of T on byte sequences (index 1 is the most significant).    *)
(***************************************************************************)
Min(S) == CHOOSE x \in S : \A y \in S : x <= y

RECURSIVE Shr8(_, _)
Shr8(n, k) == IF k = 0 THEN n ELSE Shr8(n \div 256, k - 1)

\* T::try_from(n: usize).unwrap() for a usize below 2^(8*N)
TryFrom(n, N) == [i \in 1..N |-> Shr8(n, N - i) % 256]

\* T::default()
Default(N) == [i \in 1..N |-> 0]

RECURSIVE And8(_, _)
And8(x, y) ==
    IF x = 0 \/ y = 0 THEN 0
    ELSE (x % 2) * (y % 2) + 2 * And8(x \div 2, y \div 2)

\* a & b
BitAnd(a, b) == [i \in 1..Len(a) |-> And8(a[i], b[i])]

\* a < b on the bytes i..Len(a) (the low-order part of the two values)
SuffixLt(a, b, i) ==
    LET d == {j \in i..Len(a) : a[j] # b[j]}
    IN  d # {} /\ a[Min(d)] < b[Min(d)]

\* a >= b
Ge(a, b) == ~SuffixLt(a, b, 1)

\* a - b, modulo 2^(8*N)
Sub(a, b) ==
    [i \in 1..Len(a) |->
        (a[i] - b[i] - (IF SuffixLt(a, b, i + 1) THEN 1 ELSE 0) + 256) % 256]

\* u32::from_be_bytes / u64::from_be_bytes
from_be_bytes(c) == c

\* from_le_bytes that leaves the bytes in memory order
from_le_bytes_Unswapped(c) == c

\* u32::from_le_bytes / u64::from_le_bytes
from_le_bytes(c) == [i \in 1..Len(c) |-> c[Len(c) + 1 - i]]

(***************************************************************************)
(* Byte buffers.                                                           *)
(***************************************************************************)
\* bytes[i] of a buffer b
ByteAt(b, i) == IF i \in DOMAIN b.data THEN b.data[i] ELSE 0

\* &bytes[lo..lo+n] as a sequence of n bytes
Slice(b, lo, n) == [i \in 1..n |-> ByteAt(b, lo + i - 1)]

(***************************************************************************)
(* The regular expression "([[:print:][:space:]]{min,max})\0" of           *)
(* get_strings_by_page_offset, on the bytes of one chunk.  A chunk is a    *)
(* record [offset, len]: the slice &bytes[offset..offset+len].             *)
(***************************************************************************)
\* [[:print:][:space:]] : 0x20..0x7e, and \t \n \v \f \r
InClass(x) == (32 <= x /\ x <= 126) \/ (9 <= x /\ x <= 13)

Max(S) == CHOOSE x \in S : \A y \in S : x >= y

\* the lengths L of the class run of a match that starts at chunk position s:
\* L bytes of the class, min <= L <= max, followed by a NUL inside the chunk
MatchLens(b, chunk, s, min, max) ==
    {L \in min..max :
        /\ s + L < chunk.len
        /\ ByteAt(b, chunk.offset + s + L) = 0
        /\ \A j \in 0..(L - 1) : InClass(ByteAt(b, chunk.offset + s + j))}

\* re.find_iter(chunk): the starts of the successive leftmost matches, each
\* search resuming at the end of the match before it
RECURSIVE FindIter(_, _, _, _, _)
FindIter(b, chunk, pos, min, max) ==
    LET starts == {s \in pos..(chunk.len - 1) :
                      /\ (min = 0 \/ InClass(ByteAt(b, chunk.offset + s)))
                      /\ MatchLens(b, chunk, s, min, max) # {}}
    IN  IF starts = {} THEN {}
        ELSE LET s == Min(starts)
                 e == s + Max(MatchLens(b, chunk, s, min, max)) + 1
             IN  {s} \cup FindIter(b, chunk, e, min, max)

(***************************************************************************)
(* Args (the fields the pipeline reads) and the inputs of the model.       *)
(***************************************************************************)
\* size_of::<T>() for the T that main picks from args.size()
SizeOf(a) == IF a.is_64bit THEN 8 ELSE 4

\* read_address_bytes, as main picks it from args.endian()
ReadAddressBytes(a, c) ==
    IF a.is_big_endian THEN from_be_bytes(c) ELSE from_le_bytes(c)

Args(is64, big, min, max, ms, ma) ==
    [is_64bit |-> is64, is_big_endian |-> big,
     min_string_length |-> min, max_string_length |-> max,
     max_strings |-> ms, max_addresses |-> ma]

\* a buffer of len bytes holding the bytes of data that are not zero
Buffer(len, data) ==
    [len |-> len,
     data |-> [i \in {j \in DOMAIN data : j < len /\ data[j] # 0} |-> data[i]]]

\* the word of value v (a usize) stored at offset off in the byte order of a
Stored(a, off, v) ==
    LET N == SizeOf(a)
        w == TryFrom(v, N)
        m == IF a.is_big_endian THEN w ELSE [i \in 1..N |-> w[N + 1 - i]]
    IN  [i \in off..(off + N - 1) |-> m[i - off + 1]]

\* the words of the values vals stored one after the other from offset off
Table(a, off, vals) ==
    LET N == SizeOf(a)
    IN  [i \in off..(off + N * Len(vals) - 1) |->
            Stored(a, off + N * ((i - off) \div N), vals[((i - off) \div N) + 1])[i]]

\* identifiers of n letters 'A' at each of the offsets offs; the buffer's
\* zero after each is its NUL
Idents(offs, n) == [i \in UNION {off..(off + n - 1) : off \in offs} |-> 65]

\* the default --min and sampling caps, and --max 32
BaseArgs(is64, big) == Args(is64, big, 10, 32, 100000, 1000000)

\* buffers of a few bytes: empty, shorter than a word, shorter than the
\* minimum string length, with and without a word that is not zero
TinyInputs ==
    {[args |-> BaseArgs(is64, big), threads |-> t, bytes |-> b] :
        is64 \in BOOLEAN, big \in BOOLEAN, t \in 1..MaxThreads,
        b \in {Buffer(0, <<>>), Buffer(3, <<>>), Buffer(8, <<>>),
               Buffer(8, 0 :> 1 @@ 4 :> 1), Buffer(10, <<>>)}}

\* 0x2000 bytes, an identifier of 20 letters at 0x100, the 64-bit
\* little-endian word 0x9100 at two aligned offsets, zero elsewhere
ScenarioAInputs ==
    {[args |-> BaseArgs(TRUE, FALSE), threads |-> t,
      bytes |-> Buffer(8192, Idents({256}, 20)
                             @@ Stored(BaseArgs(TRUE, FALSE), p[1], 37120)
                             @@ Stored(BaseArgs(TRUE, FALSE), p[2], 37120))] :
        t \in 1..MaxThreads, p \in {<<512, 520>>, <<520, 4096>>}}

\* 0x2200 bytes, identifiers of 12 letters at the offsets offs and a table
\* of 32-bit pointers at 0x200
Synth(a, t, offs, ptrs) ==
    [args |-> a, threads |-> t,
     bytes |-> Buffer(8704, Idents(offs, 12) @@ Table(a, 512, ptrs))]

SynthInputs ==
    {Synth(BaseArgs(FALSE, big), t, c[1], c[2]) :
        big \in BOOLEAN, t \in 1..MaxThreads,
        c \in {<<{256, 4352}, <<33024, 37120>>>>,           \* base 0x8000
               <<{256, 4352}, <<33028, 37124>>>>,           \* base 0x8004
               <<{256, 4352, 8448}, <<33024, 37120>>>>,     \* two of three
               <<{256, 4352, 8448}, <<33024, 37120, 41216>>>>,
               <<{256}, <<33024>>>>,                        \* one pair
               <<{4352}, <<256, 8448>>>>}}                  \* address below

\* a sampling cap that truncates the strings
CappedInputs ==
    {Synth(Args(FALSE, FALSE, 10, 32, 1, 1000000), t, {256, 4352},
           <<33024, 37120>>) : t \in 1..MaxThreads}

\* identifiers at 0x100 and 0x1200, in two buckets, with the pointers to
\* both under base 0x8000 and the word 0x200, below the string of its bucket
TwoBucketInputs ==
    {Synth(BaseArgs(FALSE, big), t, {256, 4608}, <<33024, 37376, 512>>) :
        big \in BOOLEAN, t \in 1..MaxThreads}

\* --min 2 --max 4 on 16 bytes: one run of 1..MaxRun letters at every
\* offset that leaves room for its NUL, so that runs end before, on and
\* after every chunk boundary
RunInputs ==
    {[args |-> Args(FALSE, FALSE, 2, 4, 100000, 1000000), threads |-> t,
      bytes |-> Buffer(16, Idents({c[1]}, c[2]))] :
        t \in 1..MaxThreads,
        c \in {d \in (0..14) \X (1..MaxRun) : d[1] + d[2] <= 15}}

\* sampling caps that truncate the strings and the addresses
BothCappedInputs ==
    {Synth(Args(FALSE, FALSE, 10, 32, 1, 2), t, {256, 4352},
           <<33024, 37120>>) : t \in 1..MaxThreads}

\* --min above --max, on buffers with strings and pointers
BadRangeInputs ==
    {Synth(Args(FALSE, big, 5, 4, 100000, 1000000), t, {256, 4352},
           <<33024, 37120>>) : big \in BOOLEAN, t \in 1..MaxThreads}
    \cup {[args |-> Args(FALSE, big, 5, 4, 100000, 1000000), threads |-> t,
            bytes |-> Buffer(16, Idents({2}, 4))] :
              big \in BOOLEAN, t \in 1..MaxThreads}

Inputs ==
    TinyInputs \cup ScenarioAInputs \cup SynthInputs \cup CappedInputs
        \cup TwoBucketInputs \cup RunInputs \cup BothCappedInputs
        \cup BadRangeInputs

(***************************************************************************)
(* State.                                                                  *)
(***************************************************************************)
VARIABLES
    args,             \* the parsed Args
    threads,          \* thread::available_parallelism(), the size of the pool
    bytes,            \* the mapped file
    pc,               \* where get_base_address is
    chunks,           \* get_strings_by_page_offset: chunks not yet searched
    offsets,          \* DashSet of the file offsets of the strings found
    todo,             \* indexing loop: items no worker has taken yet
    miss,             \* indexing loop: items whose get_mut returned None and
                      \* whose insert is still to come
    strings_index,    \* DashMap page offset -> Vec of string file offsets
    addresses,        \* DashSet of the addresses found
    addresses_index,  \* DashMap page offset -> Vec of addresses
    buckets,          \* voting loop: entries of strings_index not yet taken
    base_addresses,   \* DashMap candidate base address -> frequency
    num_candidates,   \* base_addresses.len() before the filter
    sorted,           \* Vec of (base, frequency)
    result,           \* <<>> until get_base_address returns,
                      \* then <<"None">> or <<"Some", base>>
    previous,         \* <<>> in the first run of the program on the file;
                      \* in a second run, what the first one returned and
                      \* the frequencies it counted
    frequencies,      \* the modules Addresses and Base: the frequency maps
    map               \* the modules Addresses: the map that a loop fills

vars == <<args, threads, bytes, pc, chunks, offsets, todo, miss,
          strings_index, addresses, addresses_index, buckets,
          base_addresses, num_candidates, sorted, result, previous,
          frequencies, map>>

N == SizeOf(args)

\* the mask one bit wider than PAGE_OFFSET_MASK
PageOffset_Wide(v) == BitAnd(v, TryFrom(2 * PAGE_OFFSET_MASK + 1, Len(v)))

\* value & T::try_from(PAGE_OFFSET_MASK).unwrap()
PageOffset(v) == BitAnd(v, TryFrom(PAGE_OFFSET_MASK, Len(v)))

(***************************************************************************)
(* DashMap<T, Vec<T>> as a function from the keys present to sequences.    *)
(***************************************************************************)
\* a push that leaves the value in the bucket twice
Push_Twice(index, k, v) == [index EXCEPT ![k] = Append(Append(@, v), v)]

\* index.get_mut(&k) is Some: push onto the bucket under its lock
Push(index, k, v) == [index EXCEPT ![k] = Append(@, v)]

\* an insert under the value in the place of its page offset
Insert_ValueKey(index, k, v) == (v :> <<v>>) @@ index

\* index.insert(k, vec![v]): the bucket of k is replaced when k is present
Insert(index, k, v) == (k :> <<v>>) @@ index

\* the values held by all the buckets of an index
Values(index) == UNION {{index[k][i] : i \in 1..Len(index[k])} : k \in DOMAIN index}

\* take_any that lets one more item through
TakeAny_OneMore(S, n) ==
    IF Cardinality(S) <= n + 1 THEN {S}
    ELSE {X \in SUBSET S : Cardinality(X) = n + 1}

\* into_par_iter().take_any(n): any n of the items, all of them if fewer
TakeAny(S, n) ==
    IF Cardinality(S) <= n THEN {S}
    ELSE {X \in SUBSET S : Cardinality(X) = n}

(***************************************************************************)
(* get_strings_by_page_offset                                              *)
(***************************************************************************)
\* the chunks: one every chunk_size bytes, each with max_string_length - 1
\* more bytes, clipped to the end of the buffer
Chunks(limit, chunk_size, max_string_length) ==
    {[offset |-> o,
      len |-> Min({o + chunk_size + max_string_length - 1, limit}) - o] :
        o \in {x \in 0..(limit - 1) : x % chunk_size = 0}}

\* a search that compiles any {min,max}
GetStringsChunks_AnyRange ==
    /\ pc = "start"
    /\ LET chunk_size == bytes.len \div threads
       IN  IF chunk_size = 0
           THEN /\ pc' = "panicked"
                /\ chunks' = chunks
           ELSE /\ pc' = "find_strings"
                /\ chunks' = Chunks(bytes.len, chunk_size, args.max_string_length)
    /\ UNCHANGED <<args, threads, bytes, offsets, todo, miss, strings_index,
                   addresses, addresses_index, buckets, base_addresses,
                   num_candidates, sorted, result, previous, frequencies, map>>

\* step_by(0) panics, and so does Regex::new(..).unwrap() on {min,max}
\* with min > max
GetStringsChunks ==
    /\ pc = "start"
    /\ LET chunk_size == bytes.len \div threads
       IN  IF chunk_size = 0
              \/ args.min_string_length > args.max_string_length
           THEN /\ pc' = "panicked"
                /\ chunks' = chunks
           ELSE /\ pc' = "find_strings"
                /\ chunks' = Chunks(bytes.len, chunk_size, args.max_string_length)
    /\ UNCHANGED <<args, threads, bytes, offsets, todo, miss, strings_index,
                   addresses, addresses_index, buckets, base_addresses,
                   num_candidates, sorted, result, previous, frequencies, map>>

\* one chunk of the parallel loop: every match's file offset goes to the set
FindStrings(chunk) ==
    /\ pc = "find_strings"
    /\ chunk \in chunks
    /\ offsets' = offsets \cup
          {TryFrom(chunk.offset + s, N) :
              s \in FindIter(bytes, chunk, 0, args.min_string_length,
                             args.max_string_length)}
    /\ chunks' = chunks \ {chunk}
    /\ UNCHANGED <<args, threads, bytes, pc, todo, miss, strings_index,
                   addresses, addresses_index, buckets, base_addresses,
                   num_candidates, sorted, result, previous, frequencies, map>>

\* the search has joined: the indexing loop starts on take_any(max_strings)
StartIndexStrings ==
    /\ pc = "find_strings"
    /\ chunks = {}
    /\ todo' \in TakeAny(offsets, args.max_strings)
    /\ pc' = "index_strings"
    /\ UNCHANGED <<args, threads, bytes, chunks, offsets, miss, strings_index,
                   addresses, addresses_index, buckets, base_addresses,
                   num_candidates, sorted, result, previous, frequencies, map>>

\* a free worker takes file_offset: get_mut finds the bucket and pushes,
\* or finds none and goes on to the else branch
IndexStringGetMut(file_offset) ==
    /\ pc = "index_strings"
    /\ file_offset \in todo
    /\ Cardinality(miss) < threads
    /\ todo' = todo \ {file_offset}
    /\ IF PageOffset(file_offset) \in DOMAIN strings_index
       THEN /\ strings_index' =
                  Push(strings_index, PageOffset(file_offset), file_offset)
            /\ miss' = miss
       ELSE /\ miss' = miss \cup {file_offset}
            /\ strings_index' = strings_index
    /\ UNCHANGED <<args, threads, bytes, pc, chunks, offsets, addresses,
                   addresses_index, buckets, base_addresses, num_candidates,
                   sorted, result, previous, frequencies, map>>

\* the else branch: index.insert(page_offset, vec![file_offset])
IndexStringInsert(file_offset) ==
    /\ pc = "index_strings"
    /\ file_offset \in miss
    /\ miss' = miss \ {file_offset}
    /\ strings_index' =
          Insert(strings_index, PageOffset(file_offset), file_offset)
    /\ UNCHANGED <<args, threads, bytes, pc, chunks, offsets, todo, addresses,
                   addresses_index, buckets, base_addresses, num_candidates,
                   sorted, result, previous, frequencies, map>>

(***************************************************************************)
(* get_addresses_by_page_offset                                            *)
(***************************************************************************)
\* the values of all the words of the buffer, without the filter
DecodedAddresses_KeepZero(b, a) ==
    {ReadAddressBytes(a, Slice(b, w * SizeOf(a), SizeOf(a))) :
        w \in 0..((b.len \div SizeOf(a)) - 1)}

\* the values of the words of the buffer that are not T::default()
DecodedAddresses(b, a) ==
    {ReadAddressBytes(a, Slice(b, w * SizeOf(a), SizeOf(a))) :
        w \in 0..((b.len \div SizeOf(a)) - 1)} \ {Default(SizeOf(a))}

\* an address locator that does not wait for the string loop to join
FindAddresses_Early ==
    /\ pc = "index_strings"
    /\ IF bytes.len % N # 0
       THEN /\ pc' = "panicked"
            /\ UNCHANGED <<addresses, todo>>
       ELSE /\ pc' = "index_addresses"
            /\ addresses' = DecodedAddresses(bytes, args)
            /\ todo' \in TakeAny(addresses', args.max_addresses)
    /\ UNCHANGED <<args, threads, bytes, chunks, offsets, miss, strings_index,
                   addresses_index, buckets, base_addresses, num_candidates,
                   sorted, result, previous, frequencies, map>>

\* bytes.chunks(N) ends with a shorter chunk when N does not divide the
\* length, and try_into().unwrap() panics on it; otherwise every word that
\* is not zero goes to the set, and the indexing loop starts on
\* take_any(max_addresses)
FindAddresses ==
    /\ pc = "index_strings"
    /\ todo = {}
    /\ miss = {}
    /\ IF bytes.len % N # 0
       THEN /\ pc' = "panicked"
            /\ UNCHANGED <<addresses, todo>>
       ELSE /\ pc' = "index_addresses"
            /\ addresses' = DecodedAddresses(bytes, args)
            /\ todo' \in TakeAny(addresses', args.max_addresses)
    /\ UNCHANGED <<args, threads, bytes, chunks, offsets, miss, strings_index,
                   addresses_index, buckets, base_addresses, num_candidates,
                   sorted, result, previous, frequencies, map>>

IndexAddressGetMut(address) ==
    /\ pc = "index_addresses"
    /\ address \in todo
    /\ Cardinality(miss) < threads
    /\ todo' = todo \ {address}
    /\ IF PageOffset(address) \in DOMAIN addresses_index
       THEN /\ addresses_index' =
                  Push(addresses_index, PageOffset(address), address)
            /\ miss' = miss
       ELSE /\ miss' = miss \cup {address}
            /\ addresses_index' = addresses_index
    /\ UNCHANGED <<args, threads, bytes, pc, chunks, offsets, strings_index,
                   addresses, buckets, base_addresses, num_candidates,
                   sorted, result, previous, frequencies, map>>

IndexAddressInsert(address) ==
    /\ pc = "index_addresses"
    /\ address \in miss
    /\ miss' = miss \ {address}
    /\ addresses_index' = Insert(addresses_index, PageOffset(address), address)
    /\ UNCHANGED <<args, threads, bytes, pc, chunks, offsets, todo,
                   strings_index, addresses, buckets, base_addresses,
                   num_candidates, sorted, result, previous, frequencies, map>>

(***************************************************************************)
(* get_base_address                                                        *)
(***************************************************************************)
\* a voting loop that starts while the address loop still has items
StartVote_Early ==
    /\ pc = "index_addresses"
    /\ buckets' = DOMAIN strings_index
    /\ pc' = "vote"
    /\ UNCHANGED <<args, threads, bytes, chunks, offsets, todo, miss,
                   strings_index, addresses, addresses_index, base_addresses,
                   num_candidates, sorted, result, previous, frequencies, map>>

\* both indices are built: the voting loop starts on the entries of
\* strings_index
StartVote ==
    /\ pc = "index_addresses"
    /\ todo = {}
    /\ miss = {}
    /\ buckets' = DOMAIN strings_index
    /\ pc' = "vote"
    /\ UNCHANGED <<args, threads, bytes, chunks, offsets, todo, miss,
                   strings_index, addresses, addresses_index, base_addresses,
                   num_candidates, sorted, result, previous, frequencies, map>>

\* the pairs of one bucket without the filter
Pairs_Unfiltered(string_file_offsets, addrs) ==
    (1..Len(string_file_offsets)) \X (1..Len(addrs))

\* the (string, address) pairs of one bucket that pass the filter
\* address >= string_file_offset, as positions in the two Vecs
Pairs(string_file_offsets, addrs) ==
    {p \in (1..Len(string_file_offsets)) \X (1..Len(addrs)) :
        Ge(addrs[p[2]], string_file_offsets[p[1]])}

\* Count that adds one for a candidate of the bucket, however many pairs
Count_OncePerCandidate(tally, string_file_offsets, addrs) ==
    LET pairs == Pairs(string_file_offsets, addrs)
        diff(p) == Sub(addrs[p[2]], string_file_offsets[p[1]])
    IN  [c \in DOMAIN tally \cup {diff(p) : p \in pairs} |->
            (IF c \in DOMAIN tally THEN tally[c] ELSE 0)
            + (IF c \in {diff(p) : p \in pairs} THEN 1 ELSE 0)]

\* *base_addresses.entry(address - string_file_offset).or_insert(0) += 1
\* for every pair of the bucket
Count(tally, string_file_offsets, addrs) ==
    LET pairs == Pairs(string_file_offsets, addrs)
        diff(p) == Sub(addrs[p[2]], string_file_offsets[p[1]])
    IN  [c \in DOMAIN tally \cup {diff(p) : p \in pairs} |->
            (IF c \in DOMAIN tally THEN tally[c] ELSE 0)
            + Cardinality({p \in pairs : diff(p) = c})]

\* a voting step that takes its entry out of strings_index
Vote_Draining(string_page_offset) ==
    /\ pc = "vote"
    /\ string_page_offset \in buckets
    /\ buckets' = buckets \ {string_page_offset}
    /\ strings_index' =
          [k \in DOMAIN strings_index \ {string_page_offset} |->
              strings_index[k]]
    /\ base_addresses' =
          IF string_page_offset \in DOMAIN addresses_index
          THEN Count(base_addresses, strings_index[string_page_offset],
                     addresses_index[string_page_offset])
          ELSE base_addresses
    /\ UNCHANGED <<args, threads, bytes, pc, chunks, offsets, todo, miss,
                   addresses, addresses_index, num_candidates,
                   sorted, result, previous, frequencies, map>>

\* one entry of strings_index in the parallel loop
Vote(string_page_offset) ==
    /\ pc = "vote"
    /\ string_page_offset \in buckets
    /\ buckets' = buckets \ {string_page_offset}
    /\ base_addresses' =
          IF string_page_offset \in DOMAIN addresses_index
          THEN Count(base_addresses, strings_index[string_page_offset],
                     addresses_index[string_page_offset])
          ELSE base_addresses
    /\ UNCHANGED <<args, threads, bytes, pc, chunks, offsets, todo, miss,
                   strings_index, addresses, addresses_index, num_candidates,
                   sorted, result, previous, frequencies, map>>

\* the filter with v > 2
Recurring_MoreThanTwo(tally) ==
    {<<c, tally[c]>> : c \in {x \in DOMAIN tally : tally[x] > 2}}

\* the filter with v >= 1
Recurring_All(tally) ==
    {<<c, tally[c]>> : c \in {x \in DOMAIN tally : tally[x] >= 1}}

\* .filter(|&(_k, v)| v > 1)
Recurring(tally) == {<<c, tally[c]>> : c \in {x \in DOMAIN tally : tally[x] > 1}}

\* the comparator v1.cmp(v2)
Cmp_Ascending(e1, e2) ==
    IF e1[2] < e2[2] THEN "Less" ELSE IF e1[2] > e2[2] THEN "Greater" ELSE "Equal"

\* the comparator of sort_by, |(_a1, v1), (_a2, v2)| v2.cmp(v1): Less when
\* the first entry goes before the second
Cmp(e1, e2) ==
    IF e2[2] < e1[2] THEN "Less" ELSE IF e2[2] > e1[2] THEN "Greater" ELSE "Equal"

\* a ranking that keeps one entry for each frequency
SortBy_OnePerFrequency(entries) ==
    LET kept == {X \in SUBSET entries :
                    /\ \A e \in entries : \E x \in X : x[2] = e[2]
                    /\ \A x, y \in X : x[2] = y[2] => x = y}
    IN  UNION {{v \in [1..Cardinality(X) -> X] :
                   /\ {v[i] : i \in 1..Cardinality(X)} = X
                   /\ \A i, j \in 1..Cardinality(X) :
                         i < j => v[i][2] > v[j][2]} : X \in kept}

\* the Vecs that collecting a map of these entries and sort_by can give:
\* the map iterates in any order, and the sort keeps equal entries in it
SortBy(entries) ==
    LET n == Cardinality(entries)
    IN  {v \in [1..n -> entries] :
            /\ {v[i] : i \in 1..n} = entries
            /\ \A i, j \in 1..n : i < j => Cmp(v[i], v[j]) # "Greater"}

\* sorted.last() in the place of sorted.first()
First_Last(v) == IF Len(v) = 0 THEN <<"None">> ELSE <<"Some", v[Len(v)][1]>>

\* sorted.first().cloned()? ; Some(base)
First(v) == IF Len(v) = 0 THEN <<"None">> ELSE <<"Some", v[1][1]>>

\* the loop has joined: count, filter, sort, return
Rank ==
    /\ pc = "vote"
    /\ buckets = {}
    /\ num_candidates' = Cardinality(DOMAIN base_addresses)
    /\ sorted' \in SortBy(Recurring(base_addresses))
    /\ result' = First(sorted')
    /\ pc' = "done"
    /\ UNCHANGED <<args, threads, bytes, chunks, offsets, todo, miss,
                   strings_index, addresses, addresses_index, buckets,
                   base_addresses, previous, frequencies, map>>

(***************************************************************************)
(* The specification.                                                      *)
(***************************************************************************)
\* the program starts on the file and the arguments of one of the inputs
Start(inputs) ==
    /\ \E in \in inputs :
          /\ args = in.args
          /\ threads = in.threads
          /\ bytes = in.bytes
    /\ pc = "start"
    /\ chunks = {}
    /\ offsets = {}
    /\ todo = {}
    /\ miss = {}
    /\ strings_index = <<>>
    /\ addresses = {}
    /\ addresses_index = <<>>
    /\ buckets = {}
    /\ base_addresses = <<>>
    /\ num_candidates = 0
    /\ sorted = <<>>
    /\ result = <<>>
    /\ previous = <<>>
    /\ frequencies = <<>>
    /\ map = <<>>

Init == Start(Inputs)

Next ==
    \/ GetStringsChunks
    \/ \E chunk \in chunks : FindStrings(chunk)
    \/ StartIndexStrings
    \/ \E file_offset \in todo : IndexStringGetMut(file_offset)
    \/ \E file_offset \in miss : IndexStringInsert(file_offset)
    \/ FindAddresses
    \/ \E address \in todo : IndexAddressGetMut(address)
    \/ \E address \in miss : IndexAddressInsert(address)
    \/ StartVote
    \/ \E string_page_offset \in buckets : Vote(string_page_offset)
    \/ Rank

Spec == Init /\ [][Next]_vars

(***************************************************************************)
(* The program run twice on the same file with the same arguments.         *)
(***************************************************************************)
\* the frequencies of a tally as a bag: frequency -> number of candidates
Frequencies(tally) ==
    [n \in {tally[c] : c \in DOMAIN tally} |->
        Cardinality({c \in DOMAIN tally : tally[c] = n})]

\* main has returned and is started again: nothing of the first run is
\* left but what it reported
Rerun ==
    /\ pc = "done"
    /\ previous = <<>>
    /\ previous' = <<result, Frequencies(base_addresses)>>
    /\ pc' = "start"
    /\ chunks' = {}
    /\ offsets' = {}
    /\ todo' = {}
    /\ miss' = {}
    /\ strings_index' = <<>>
    /\ addresses' = {}
    /\ addresses_index' = <<>>
    /\ buckets' = {}
    /\ base_addresses' = <<>>
    /\ num_candidates' = 0
    /\ sorted' = <<>>
    /\ result' = <<>>
    /\ UNCHANGED <<args, threads, bytes, frequencies, map>>

\* two identifiers of one bucket and the two pointers to them: no sampling
\* cap is reached and no two candidates have the same frequency
RerunInputs ==
    {Synth(BaseArgs(FALSE, big), t, {256, 4352}, <<33024, 37120>>) :
        big \in BOOLEAN, t \in 1..MaxThreads}

InitRuns == Start(RerunInputs)

NextRuns == Next \/ Rerun

SpecRuns == InitRuns /\ [][NextRuns]_vars

(***************************************************************************)
(* Vocabulary of the properties.                                           *)
(***************************************************************************)
Some(base) == <<"Some", base>>
None == <<"None">>

\* the tally of candidate c, 0 when it was never voted for
Tally(c) == IF c \in DOMAIN base_addresses THEN base_addresses[c] ELSE 0

\* the bases of the ranking
Ranked == {sorted[i][1] : i \in 1..Len(sorted)}

\* the (string offset, address) pairs among strs \X addrs with
\* address - offset = base, whatever their page offsets
SupportingPairs(strs, addrs, base) ==
    {p \in strs \X addrs : Ge(p[2], p[1]) /\ Sub(p[2], p[1]) = base}

\* the candidates of strs \X addrs
CandidatesOf(strs, addrs) ==
    {Sub(p[2], p[1]) : p \in {q \in strs \X addrs : Ge(q[2], q[1])}}

\* The string search and the address search have joined
StringsJoined == pc \in {"index_addresses", "vote", "done"}
AddressesJoined == pc \in {"vote", "done"}

(***************************************************************************)
(* C1.  Original statement: whenever at least two (pointer, string) pairs  *)
(* embedded in the buffer support base, get_base_address returns           *)
(* Some(base).                                                             *)
(***************************************************************************)
C1_Original ==
    pc = "done" =>
        \A base \in CandidatesOf(offsets, addresses) :
            Cardinality(SupportingPairs(offsets, addresses, base)) >= 2
                => result = Some(base)

\* C1, amended: for a page-aligned base, whenever at least two supporting
\* (pointer, string) pairs are held by the two indices and every other
\* candidate has a smaller tally, get_base_address returns Some(base), and
\* the tally of base is the number of those pairs.
C1_BestIsBase ==
    pc = "done" =>
        \A base \in CandidatesOf(Values(strings_index), Values(addresses_index)) :
            LET n == Cardinality(SupportingPairs(Values(strings_index),
                                                 Values(addresses_index), base))
            IN  (/\ PageOffset(base) = Default(N)
                 /\ n >= 2
                 /\ \A c \in DOMAIN base_addresses \ {base} : base_addresses[c] < n)
                => (result = Some(base) /\ Tally(base) = n)

\* a run that ends with a page-aligned base of three pairs ahead of others
C1_Witness ==
    /\ pc = "done"
    /\ Len(sorted) >= 2
    /\ PageOffset(sorted[1][1]) = Default(N)
    /\ sorted[1][2] = 3
    /\ Cardinality(SupportingPairs(Values(strings_index),
                                   Values(addresses_index), sorted[1][1])) = 3
    /\ \A c \in DOMAIN base_addresses \ {sorted[1][1]} : base_addresses[c] < 3
    /\ result = Some(sorted[1][1])

(***************************************************************************)
(* C2.  Scenario A: 0x2000 bytes, an identifier of 20 bytes and its NUL at *)
(* 0x100, the 64-bit little-endian word 0x9100 in two aligned slots, zero  *)
(* elsewhere; width 64, little-endian, min 10, max 32.                     *)
(***************************************************************************)
IdentifierByte(x) ==
    (48 <= x /\ x <= 57) \/ (65 <= x /\ x <= 90) \/ (97 <= x /\ x <= 122) \/ x = 95

ScenarioA ==
    /\ args.is_64bit
    /\ ~args.is_big_endian
    /\ args.min_string_length = 10
    /\ args.max_string_length = 32
    /\ bytes.len = 8192
    /\ \A i \in 256..275 : IdentifierByte(ByteAt(bytes, i))
    /\ LET slots == {w \in 0..1023 :
                        Slice(bytes, 8 * w, 8) = <<0, 145, 0, 0, 0, 0, 0, 0>>}
       IN  /\ Cardinality(slots) = 2
           /\ DOMAIN bytes.data \subseteq
                 (256..275) \cup UNION {(8 * w)..(8 * w + 7) : w \in slots}

\* C2, original statement: in Scenario A the best candidate is 0x9000 and
\* its tally is 2.
C2_Original ==
    (pc = "done" /\ ScenarioA) =>
        (result = Some(TryFrom(36864, 8)) /\ Tally(TryFrom(36864, 8)) = 2)

\* C2, amended: in Scenario A the pipeline completes, the two copies of
\* 0x9100 are one address of the Address Index, the only candidate is
\* 0x9000 with tally 1, the singleton filter drops it, and the outcome is
\* "no base found".
C2_ScenarioA ==
    (pc \in {"done", "panicked"} /\ ScenarioA) =>
        /\ pc = "done"
        /\ DOMAIN base_addresses = {TryFrom(36864, 8)}
        /\ Tally(TryFrom(36864, 8)) = 1
        /\ sorted = <<>>
        /\ result = None

C2_Witness ==
    /\ pc = "done"
    /\ ScenarioA
    /\ TryFrom(37120, 8) \in Values(addresses_index)
    /\ TryFrom(256, 8) \in Values(strings_index)
    /\ Tally(TryFrom(36864, 8)) = 1
    /\ result = None

(***************************************************************************)
(* C3.  Scenario B: two distinct strings S1, S2 of one page-offset bucket, *)
(* and the Address Index holding base + S1 and base + S2 in that bucket.   *)
(***************************************************************************)
BucketValues(index, k) == {index[k][i] : i \in 1..Len(index[k])}

\* the indices hold the scenario and nothing else that votes: S1 and S2 are
\* the strings of the String Index, A1 and A2 the addresses of their bucket
OnlyScenarioB(k, S1, S2, A1, A2) ==
    /\ Values(strings_index) = {S1, S2}
    /\ BucketValues(addresses_index, k) = {A1, A2}

Occurrences(v) ==
    Cardinality({w \in 0..((bytes.len \div N) - 1) :
                    ReadAddressBytes(args, Slice(bytes, w * N, N)) = v})

\* C4: after get_addresses_by_page_offset, no value decoded from exactly one
\* aligned word slot is in a bucket of the Address Index.
C4_ZeroFilter ==
    AddressesJoined =>
        \A v \in Values(addresses_index) : Occurrences(v) # 1

(***************************************************************************)
(* C5.  Singleton-filter.                                                  *)
(***************************************************************************)
\* C5: no candidate whose tally after voting is 1 is in the final ranking,
\* and none is returned as best.
C5_SingletonFilter ==
    pc = "done" =>
        \A c \in DOMAIN base_addresses :
            base_addresses[c] = 1 => (c \notin Ranked /\ result # Some(c))

C5_Witness ==
    /\ pc = "done"
    /\ Len(sorted) >= 1
    /\ \E c \in DOMAIN base_addresses : base_addresses[c] = 1 /\ c \notin Ranked

(***************************************************************************)
(* C6.  The value get_base_address returns.                                *)
(***************************************************************************)
\* C6: get_base_address returns the first entry of the ranking, whose
\* support is at least that of every ranked candidate; it returns None
\* exactly when no candidate has a tally above 1 (in particular with no
\* strings or no addresses), and then it has returned, not panicked.
C6_FirstOrNone ==
    /\ (result # <<>>) <=> (pc = "done")
    /\ pc = "done" =>
          /\ (result = None) <=> (\A c \in DOMAIN base_addresses : base_addresses[c] <= 1)
          /\ (result = None) <=> (sorted = <<>>)
          /\ (strings_index = <<>> \/ addresses_index = <<>>) => result = None
          /\ result # None =>
                /\ result = Some(sorted[1][1])
                /\ sorted[1][2] = Tally(sorted[1][1])
                /\ \A i \in 1..Len(sorted) : sorted[1][2] >= sorted[i][2]
                /\ \A c \in DOMAIN base_addresses : sorted[1][2] >= base_addresses[c]

C6_Witness ==
    /\ pc = "done"
    /\ Len(sorted) >= 2
    /\ result = Some(sorted[1][1])
    /\ sorted[1][2] > sorted[Len(sorted)][2]

(***************************************************************************)
(* C7.  The order of the ranking.                                          *)
(***************************************************************************)
\* C7: adjacent entries of the final ranking are in descending order of
\* support.
C7_SortedDescending ==
    pc = "done" =>
        \A i \in 1..(Len(sorted) - 1) : sorted[i][2] >= sorted[i + 1][2]

C7_Witness ==
    /\ pc = "done"
    /\ Len(sorted) >= 3
    /\ sorted[1][2] > sorted[2][2]

(***************************************************************************)
(* C8.  Degenerate buffers.                                                *)
(***************************************************************************)
\* the buffer is empty, shorter than one word, or shorter than min_len
Degenerate ==
    \/ bytes.len = 0
    \/ bytes.len < N
    \/ bytes.len < args.min_string_length

\* C8: on a degenerate buffer the pipeline does not panic, and it ends with
\* both indices empty and "no base found".
C8_Boundary ==
    Degenerate =>
        /\ pc # "panicked"
        /\ pc = "done" =>
              (strings_index = <<>> /\ addresses_index = <<>> /\ result = None)

(***************************************************************************)
(* C9.  A trailing partial word.                                           *)
(***************************************************************************)
\* C9: when the word width does not divide the length of the buffer, the
\* address search completes, and the index it builds holds the values of
\* the complete aligned words.
C9_PartialWordIgnored ==
    (bytes.len % N # 0 /\ bytes.len > N) =>
        /\ pc # "panicked"
        /\ AddressesJoined =>
              Values(addresses_index) \subseteq DecodedAddresses(bytes, args)

(***************************************************************************)
(* C10.  Insert-or-append into the bucketed index.                         *)
(***************************************************************************)
\* C10: when an indexing loop has joined, every value it was given (every
\* value of the set, when the cap does not truncate it) is in a bucket of
\* the index.
C10_NoLostValue ==
    /\ (StringsJoined /\ Cardinality(offsets) <= args.max_strings)
          => Values(strings_index) = offsets
    /\ (AddressesJoined /\ Cardinality(addresses) <= args.max_addresses)
          => Values(addresses_index) = addresses

(***************************************************************************)
(* C11.  After the voting loop has joined, the tally of every candidate c  *)
(* is the number of pairs (S, A), S in a bucket of the String Index and A  *)
(* in the bucket of the Address Index under the same key, with A >= S and  *)
(* A - S = c.  A pair with A < S adds to no tally, not even to that of the *)
(* wrapped difference, and the map has no other key.                       *)
(***************************************************************************)
\* the pairs (S, A) of the two indices that sit under the same key
SameBucketPairs ==
    UNION {BucketValues(strings_index, k) \X BucketValues(addresses_index, k) :
              k \in DOMAIN strings_index \cap DOMAIN addresses_index}

C11_TallyCountsPairs ==
    pc = "done" =>
        LET counted == {p \in SameBucketPairs : Ge(p[2], p[1])}
        IN  /\ \A c \in DOMAIN base_addresses
                         \cup {Sub(p[2], p[1]) : p \in SameBucketPairs} :
                  Tally(c) = Cardinality({p \in counted : Sub(p[2], p[1]) = c})
            /\ DOMAIN base_addresses = {Sub(p[2], p[1]) : p \in counted}

\* a candidate voted for from two buckets, next to a pair with A < S
C11_Witness ==
    /\ pc = "done"
    /\ \E p, q \in SameBucketPairs :
          /\ PageOffset(p[1]) # PageOffset(q[1])
          /\ Ge(p[2], p[1]) /\ Ge(q[2], q[1])
          /\ Sub(p[2], p[1]) = Sub(q[2], q[1])
          /\ Tally(Sub(p[2], p[1])) = 2
    /\ \E p \in SameBucketPairs : ~Ge(p[2], p[1])

(***************************************************************************)
(* C12.  Whatever the number of chunks, every string that one search of    *)
(* the whole buffer finds is found by the search of some chunk: its offset *)
(* is in the set of offsets when the chunk loop has joined.                *)
(***************************************************************************)
\* the offsets that re.find_iter gives on the whole buffer as one chunk
WholeScan ==
    {TryFrom(s, N) :
        s \in FindIter(bytes, [offset |-> 0, len |-> bytes.len], 0,
                       args.min_string_length, args.max_string_length)}

\* the chunk loop has joined and no offset has been indexed yet
StringsFound == pc = "index_strings" /\ strings_index = <<>> /\ miss = {}

RECURSIVE Usize(_, _)
Usize(v, i) == IF i = 0 THEN 0 ELSE Usize(v, i - 1) * 256 + v[i]

\* the number of bytes of the class from position s on in the buffer
RECURSIVE RunLength(_, _)
RunLength(b, s) ==
    IF s < b.len /\ InClass(ByteAt(b, s)) THEN 1 + RunLength(b, s + 1) ELSE 0

\* s starts a maximal run of min..max bytes of the class that a NUL ends
MaximalRunStart(b, s, min, max) ==
    /\ s = 0 \/ ~InClass(ByteAt(b, s - 1))
    /\ RunLength(b, s) \in min..max
    /\ s + RunLength(b, s) < b.len
    /\ ByteAt(b, s + RunLength(b, s)) = 0

C13_OffsetsAreMaximalRuns ==
    StringsFound =>
        \A o \in offsets :
            MaximalRunStart(bytes, Usize(o, N), args.min_string_length,
                            args.max_string_length)

(***************************************************************************)
(* C14.  The set of offsets is a function of the buffer and of the         *)
(* configuration alone: for every number of chunks it is the set that the  *)
(* search of the whole buffer as one chunk gives, and a chunk that starts  *)
(* inside a string adds no offset to it.                                   *)
(***************************************************************************)
C14_SameForEveryChunking == StringsFound => offsets = WholeScan

(***************************************************************************)
(* C15.  Two runs over the same buffer with the same configuration return  *)
(* the same best candidate and count the same multiset of frequencies,     *)
(* whatever the interleaving of the workers and the order of the maps.     *)
(***************************************************************************)
C15_Idempotent ==
    (pc = "done" /\ previous # <<>>) =>
        previous = <<result, Frequencies(base_addresses)>>

(***************************************************************************)
(* C16.  Pruning by page offset loses no vote of a page-aligned candidate: *)
(* for S and A with A >= S, if the low 12 bits of A - S are zero then S    *)
(* and A have the same low 12 bits; so the tally of every page-aligned     *)
(* candidate is the number of pairs of the whole product String Index x    *)
(* Address Index that support it.                                          *)
(***************************************************************************)
\* the low 12 bits of v: the low nibble of the byte before the last, and
\* the last byte
Low12(v) == <<v[Len(v) - 1] % 16, v[Len(v)]>>

\* values around the byte and page boundaries, next to those of the run
Samples == {TryFrom(h * 4096 + l, N) : h \in {0, 1, 16}, l \in {0, 256, 4095}}

C16_PruningExact ==
    pc = "done" =>
        LET strs == Values(strings_index)
            addrs == Values(addresses_index)
        IN  /\ \A S \in strs \cup Samples : \A A \in addrs \cup Samples :
                  (Ge(A, S) /\ Low12(Sub(A, S)) = <<0, 0>>)
                      => Low12(S) = Low12(A)
            /\ \A c \in CandidatesOf(strs, addrs) :
                  Low12(c) = <<0, 0>>
                      => Tally(c) = Cardinality(SupportingPairs(strs, addrs, c))

\* a page-aligned candidate with two votes, and a pair of the product that
\* the pruning skips
C16_Witness ==
    /\ pc = "done"
    /\ \E c \in DOMAIN base_addresses : Low12(c) = <<0, 0>> /\ Tally(c) >= 2
    /\ \E S \in Values(strings_index) : \E A \in Values(addresses_index) :
          Ge(A, S) /\ Low12(S) # Low12(A) /\ Tally(Sub(A, S)) = 0

(***************************************************************************)
(* C17.  Each file offset is in the String Index at most once, over all    *)
(* its buckets, also when two chunks found the string; each address is in  *)
(* the Address Index at most once, however many words of the buffer hold   *)
(* it.                                                                     *)
(***************************************************************************)
\* the number of entries of v in the buckets of an index
Entries(index, v) ==
    Cardinality({p \in UNION {{k} \X (1..Len(index[k])) : k \in DOMAIN index} :
                    index[p[1]][p[2]] = v})

C17_NoDuplicates ==
    /\ \A v \in Values(strings_index) : Entries(strings_index, v) = 1
    /\ \A v \in Values(addresses_index) : Entries(addresses_index, v) = 1

\* the chunks of the search in which the string at file offset o is found
FoundIn(o) ==
    {c \in Chunks(bytes.len, bytes.len \div threads, args.max_string_length) :
        o \in {TryFrom(c.offset + s, N) :
                  s \in FindIter(bytes, c, 0, args.min_string_length,
                                 args.max_string_length)}}

\* a string that two chunks found, in a bucket with another string, and an
\* address that two words of the buffer hold
C17_Witness ==
    /\ pc = "done"
    /\ threads > 1
    /\ \E k \in DOMAIN strings_index :
          /\ Len(strings_index[k]) > 1
          /\ \E o \in BucketValues(strings_index, k) :
                Cardinality(FoundIn(o)) > 1
    /\ \E v \in Values(addresses_index) : Occurrences(v) > 1

(***************************************************************************)
(* C18.  The String Index holds at most max_strings offsets over all its   *)
(* buckets and the Address Index at most max_addresses addresses; when the *)
(* set to index is no larger than its cap, the indexing loop is handed the *)
(* whole set.                                                              *)
(***************************************************************************)
\* the number of values in all the buckets of an index
Total(index) ==
    Cardinality(UNION {{k} \X (1..Len(index[k])) : k \in DOMAIN index})

\* the address loop has its items and has indexed none yet
AddressesFound ==
    pc = "index_addresses" /\ addresses_index = <<>> /\ miss = {}

C18_Caps ==
    /\ Total(strings_index) <= args.max_strings
    /\ Total(addresses_index) <= args.max_addresses
    /\ (StringsFound /\ Cardinality(offsets) <= args.max_strings)
            => todo = offsets
    /\ (AddressesFound /\ Cardinality(addresses) <= args.max_addresses)
            => todo = addresses

\* both caps truncate, and both indices are filled up to their cap
C18_Witness ==
    /\ pc = "done"
    /\ Cardinality(offsets) > args.max_strings
    /\ Cardinality(addresses) > args.max_addresses
    /\ Total(strings_index) = args.max_strings
    /\ Total(addresses_index) = args.max_addresses

(***************************************************************************)
(* C19.  The value 0 is never in the set of addresses nor in the Address   *)
(* Index, whatever the buffer and the byte order.                          *)
(***************************************************************************)
C19_NoZeroAddress ==
    /\ Default(N) \notin addresses
    /\ Default(N) \notin Values(addresses_index)

\* a buffer with words of zeros, decoded and indexed
C19_Witness ==
    /\ pc = "done"
    /\ \E w \in 0..((bytes.len \div N) - 1) :
          Slice(bytes, w * N, N) = Default(N)
    /\ Values(addresses_index) # {}
    /\ args.is_big_endian

(***************************************************************************)
(* C20.  In both indices every value v under key k has v & 0xFFF = k,      *)
(* every key is within 0..0xFFF, and no bucket is empty.                   *)
(***************************************************************************)
\* k <= 0xFFF: nothing above its low 12 bits
KeyInRange(k) ==
    /\ \A i \in 1..(Len(k) - 2) : k[i] = 0
    /\ k[Len(k) - 1] < 16

C20_BucketKeys ==
    \A index \in {strings_index, addresses_index} :
        \A k \in DOMAIN index :
            /\ KeyInRange(k)
            /\ Len(index[k]) >= 1
            /\ \A i \in 1..Len(index[k]) : Low12(index[k][i]) = Low12(k)

\* both indices built, with a bucket of two values and a value above 0xFFF
C20_Witness ==
    /\ pc = "done"
    /\ \E k \in DOMAIN strings_index : Len(strings_index[k]) = 2
    /\ \E k \in DOMAIN addresses_index :
          \E i \in 1..Len(addresses_index[k]) : addresses_index[k][i] # k

(***************************************************************************)
(* C21.  Phase barrier: while the voting loop runs, and after it, no       *)
(* worker of the string locator or of the address locator has a chunk to   *)
(* search, an item to index or an insert to come; the voter reads indices  *)
(* that are complete.                                                      *)
(***************************************************************************)
\* no locator worker has anything left to do
LocatorsQuiet == chunks = {} /\ todo = {} /\ miss = {}

C21_PhaseBarrier == pc \in {"vote", "done"} => LocatorsQuiet

\* the voter between two buckets, with both indices built by racing workers
C21_Witness ==
    /\ pc = "vote"
    /\ threads > 1
    /\ buckets # {} /\ buckets # DOMAIN strings_index
    /\ addresses_index # <<>>

(***************************************************************************)
(* C22.  Original statement: the string locator and the address locator    *)
(* run in parallel with each other, neither waits for the other: while the *)
(* string locator is still at work the address locator can start.          *)
(***************************************************************************)
\* the string locator has been called and has not returned
StringLocatorRunning ==
    \/ pc = "find_strings"
    \/ pc = "index_strings" /\ (todo # {} \/ miss # {})

C22_Original == StringLocatorRunning => ENABLED FindAddresses

\* C22, amended: the address locator starts only when the string locator
\* has returned, and the voter starts only when the address locator has
\* returned; the two locators are never at work at the same time.
C22_LocatorsInSequence ==
    [][/\ (pc # "index_addresses" /\ pc' = "index_addresses")
            => (pc = "index_strings" /\ LocatorsQuiet)
       /\ (pc # "vote" /\ pc' = "vote")
            => (pc = "index_addresses" /\ LocatorsQuiet)
       /\ (addresses' # addresses \/ addresses_index' # addresses_index)
            => (strings_index' = strings_index /\ offsets' = offsets
                /\ ~StringLocatorRunning)]_vars

\* the address locator at work on an index the string locator has built
C22_Witness ==
    /\ pc = "index_addresses"
    /\ threads > 1
    /\ miss # {}
    /\ addresses_index # <<>>
    /\ strings_index # <<>>

(***************************************************************************)
(* C23.  With min_string_length above max_string_length the run stops      *)
(* with an error before a chunk is searched and before an index is built:  *)
(* it never gets past the compilation of the regex, and no set of offsets, *)
(* String Index or Address Index holds anything.                           *)
(***************************************************************************)
C23_BadRangeRejected ==
    args.min_string_length > args.max_string_length =>
        /\ pc \in {"start", "panicked"}
        /\ chunks = {}
        /\ offsets = {} /\ strings_index = <<>>
        /\ addresses = {} /\ addresses_index = <<>>
        /\ result = <<>>

\* the error raised by the regex on a buffer that has a byte for every
\* worker, strings and pointers
C23_Witness ==
    /\ pc = "panicked"
    /\ args.min_string_length > args.max_string_length
    /\ bytes.len > 16
    /\ bytes.len \div threads > 0

(***************************************************************************)
(* C24.  From the start of the voting loop to the return of                *)
(* get_base_address no step changes the String Index, the Address Index,   *)
(* the set of offsets or the set of addresses: the voter writes the tally, *)
(* the ranking and the result only.                                        *)
(***************************************************************************)
C24_VoterFrame ==
    [][(pc = "vote" \/ pc' = "vote") =>
          /\ strings_index' = strings_index
          /\ addresses_index' = addresses_index
          /\ offsets' = offsets
          /\ addresses' = addresses]_vars

\* the voter has counted pairs of both indices
C24_Witness ==
    /\ pc = "done"
    /\ base_addresses # <<>>
    /\ \E k \in DOMAIN strings_index : Len(strings_index[k]) > 1
    /\ Cardinality(DOMAIN addresses_index) > 1

(***************************************************************************)
(* C25.  Ranking completeness: every candidate whose tally after voting is *)
(* 2 or more is at exactly one position of the final ranking, with its     *)
(* tally as support; every entry of the ranking is such a candidate.       *)
(***************************************************************************)
\* the positions of candidate c in the ranking
PositionsOf(c) == {i \in 1..Len(sorted) : sorted[i][1] = c}

C25_RankingComplete ==
    pc = "done" =>
        /\ \A c \in DOMAIN base_addresses :
              base_addresses[c] >= 2 =>
                  /\ Cardinality(PositionsOf(c)) = 1
                  /\ \A i \in PositionsOf(c) : sorted[i][2] = base_addresses[c]
        /\ Len(sorted) =
              Cardinality({c \in DOMAIN base_addresses : base_addresses[c] >= 2})

\* three ranked candidates, two of them with the same tally, and one
\* candidate that the filter dropped
C25_Witness ==
    /\ pc = "done"
    /\ Len(sorted) >= 3
    /\ \E i, j \in 1..Len(sorted) : i # j /\ sorted[i][2] = sorted[j][2]
    /\ \E c \in DOMAIN base_addresses : base_addresses[c] = 1

(***************************************************************************)
(* C26.  The share printed for each of the first 10 entries of the ranking *)
(* is at most 100%: frequency <= num_candidates.                           *)
(***************************************************************************)
\* the entries that the loop over sorted.iter().take(10) prints
Reported == {sorted[i] : i \in 1..Min({Len(sorted), 10})}

C26_ShareAtMostWhole ==
    pc = "done" => \A e \in Reported : e[2] <= num_candidates

(***************************************************************************)
(* The module Addresses of src/src/addresses.rs: Addresses::new on a       *)
(* buffer of words, with the conversion that main gives it.                *)
(***************************************************************************)
\* get_address_frequencies: *map.entry(ptr).or_insert(0) += 1 for every
\* word that is not T::default()
AddressFrequencies(b, a) ==
    [v \in DecodedAddresses(b, a) |->
        Cardinality({w \in 0..((b.len \div SizeOf(a)) - 1) :
            ReadAddressBytes(a, Slice(b, w * SizeOf(a), SizeOf(a))) = v})]

\* Addresses::new calls get_address_frequencies, whose conversion panics on
\* a last chunk shorter than a word, then get_unique_addresses_by_page_offset,
\* whose loop runs on the entries with a count other than 1
GetAddressFrequencies ==
    /\ pc = "addresses_new"
    /\ IF bytes.len % N # 0
       THEN /\ pc' = "panicked"
            /\ UNCHANGED <<frequencies, todo>>
       ELSE /\ pc' = "unique_addresses"
            /\ frequencies' = AddressFrequencies(bytes, args)
            /\ todo' = {k \in DOMAIN frequencies' : frequencies'[k] # 1}
    /\ UNCHANGED <<args, threads, bytes, chunks, offsets, miss, strings_index,
                   addresses, addresses_index, buckets, base_addresses,
                   num_candidates, sorted, result, previous, map>>

\* a free worker takes the entry of k: map.get_mut(&offset) finds a bucket
\* and pushes k, or finds none and goes on to the else branch
UniqueGetMut(k) ==
    /\ pc = "unique_addresses"
    /\ k \in todo
    /\ Cardinality(miss) < threads
    /\ todo' = todo \ {k}
    /\ IF PageOffset(k) \in DOMAIN map
       THEN /\ map' = Push(map, PageOffset(k), k)
            /\ miss' = miss
       ELSE /\ miss' = miss \cup {k}
            /\ map' = map
    /\ UNCHANGED <<args, threads, bytes, pc, chunks, offsets, strings_index,
                   addresses, addresses_index, buckets, base_addresses,
                   num_candidates, sorted, result, previous, frequencies>>

\* the else branch: map.insert(k, vec![k])
UniqueInsert(k) ==
    /\ pc = "unique_addresses"
    /\ k \in miss
    /\ miss' = miss \ {k}
    /\ map' = Insert(map, k, k)
    /\ UNCHANGED <<args, threads, bytes, pc, chunks, offsets, todo,
                   strings_index, addresses, addresses_index, buckets,
                   base_addresses, num_candidates, sorted, result, previous,
                   frequencies>>

\* the loop has joined: Self { addresses }
AddressesReturn ==
    /\ pc = "unique_addresses"
    /\ todo = {}
    /\ miss = {}
    /\ pc' = "addresses_returned"
    /\ addresses_index' = map
    /\ UNCHANGED <<args, threads, bytes, chunks, offsets, todo, miss,
                   strings_index, addresses, buckets, base_addresses,
                   num_candidates, sorted, result, previous, frequencies,
                   map>>

\* buffers of MaxWords 32-bit words, each 0, 0x100, 0x8100 or 0x9100, and
\* one buffer that ends inside a word
AddressesInputs ==
    {[args |-> BaseArgs(FALSE, FALSE), threads |-> t,
      bytes |-> Buffer(4 * MaxWords, Table(BaseArgs(FALSE, FALSE), 0, vals))] :
        t \in 1..MaxThreads,
        vals \in [1..MaxWords -> {0, 256, 33024, 37120}]}
    \cup {[args |-> BaseArgs(FALSE, FALSE), threads |-> 1,
            bytes |-> Buffer(6, Table(BaseArgs(FALSE, FALSE), 0, <<256>>))]}

InitAddresses ==
    /\ \E in \in AddressesInputs :
          /\ args = in.args
          /\ threads = in.threads
          /\ bytes = in.bytes
    /\ pc = "addresses_new"
    /\ chunks = {}
    /\ offsets = {}
    /\ todo = {}
    /\ miss = {}
    /\ strings_index = <<>>
    /\ addresses = {}
    /\ addresses_index = <<>>
    /\ buckets = {}
    /\ base_addresses = <<>>
    /\ num_candidates = 0
    /\ sorted = <<>>
    /\ result = <<>>
    /\ previous = <<>>
    /\ frequencies = <<>>
    /\ map = <<>>

NextAddresses ==
    \/ GetAddressFrequencies
    \/ \E k \in todo : UniqueGetMut(k)
    \/ \E k \in miss : UniqueInsert(k)
    \/ AddressesReturn

SpecAddresses == InitAddresses /\ [][NextAddresses]_vars

(***************************************************************************)
(* C27.  When Addresses::new of src/src/addresses.rs has returned, every   *)
(* address a with an occurrence count other than 1 is in the bucket of key *)
(* a & 0xFFF, so that a lookup by page offset gives every retained address *)
(* of that page offset.                                                    *)
(***************************************************************************)
C27_RetainedUnderPageOffset ==
    pc = "addresses_returned" =>
        \A a \in DOMAIN frequencies :
            frequencies[a] # 1 =>
                /\ PageOffset(a) \in DOMAIN addresses_index
                /\ a \in BucketValues(addresses_index, PageOffset(a))

(***************************************************************************)
(* The module Addresses of src/rbase/src/addresses.rs: read_addresses,     *)
(* get_freqencies, collate_frequencies and get_unique_addresses, as        *)
(* Addresses::new calls them.  Here addresses is a Vec, a sequence, and    *)
(* frequencies the Vec of the maps of the parallel fold.                   *)
(***************************************************************************)
\* the elements of a set of numbers in increasing order
Ascending(S) ==
    CHOOSE f \in [1..Cardinality(S) -> S] :
        \A i, j \in 1..Cardinality(S) : i < j => f[i] < f[j]

\* read_addresses: the words of the buffer in their order, without those
\* that are T::default()
ReadAddresses(b, a) ==
    LET word(w) == ReadAddressBytes(a, Slice(b, w * SizeOf(a), SizeOf(a)))
        kept == Ascending({w \in 0..((b.len \div SizeOf(a)) - 1) :
                              word(w) # Default(SizeOf(a))})
    IN  [i \in 1..Len(kept) |-> word(kept[i])]

\* the fold of one worker over the items lo..hi: map.insert(*ptr, v + 1)
\* or map.insert(*ptr, 1) for each
FoldFrequencies(items, lo, hi) ==
    [v \in {items[i] : i \in lo..hi} |->
        Cardinality({i \in lo..hi : items[i] = v})]

\* get_freqencies when the parallel fold splits the items after the
\* positions cuts: one map for each piece, in the order of the pieces
Partials(items, cuts) ==
    LET starts == Ascending({1} \cup {c + 1 : c \in cuts})
        last(s) == Min({c \in cuts : c >= s} \cup {Len(items)})
    IN  IF Len(items) = 0 THEN <<>>
        ELSE [i \in 1..Len(starts) |->
                 FoldFrequencies(items, starts[i], last(starts[i]))]

\* one step of the fold of collate_frequencies: for (k, v) in chunk,
\* map.insert(k, v + 1) with the v of map.get(&k) when map has k, and
\* map.insert(k, v) with the v of the chunk when it has not
CollateChunk(acc, chunk) ==
    [k \in DOMAIN acc \cup DOMAIN chunk |->
        IF k \notin DOMAIN chunk THEN acc[k]
        ELSE IF k \in DOMAIN acc THEN acc[k] + 1
        ELSE chunk[k]]

\* Addresses::new: read_addresses, whose conversion panics on a last chunk
\* shorter than a word
ReadAddressesStep ==
    /\ pc = "read_addresses"
    /\ IF bytes.len % N # 0
       THEN /\ pc' = "panicked"
            /\ addresses' = addresses
       ELSE /\ pc' = "get_freqencies"
            /\ addresses' = ReadAddresses(bytes, args)
    /\ UNCHANGED <<args, threads, bytes, chunks, offsets, todo, miss,
                   strings_index, addresses_index, buckets, base_addresses,
                   num_candidates, sorted, result, previous, frequencies,
                   map>>

\* get_freqencies: the fold splits the Vec where it likes
GetFreqencies ==
    /\ pc = "get_freqencies"
    /\ \E cuts \in SUBSET (1..(Len(addresses) - 1)) :
          frequencies' = Partials(addresses, cuts)
    /\ pc' = "collate_frequencies"
    /\ UNCHANGED <<args, threads, bytes, chunks, offsets, todo, miss,
                   strings_index, addresses, addresses_index, buckets,
                   base_addresses, num_candidates, sorted, result, previous,
                   map>>

\* collate_frequencies: the next map of the Vec goes into the accumulator
CollateFrequencies ==
    /\ pc = "collate_frequencies"
    /\ frequencies # <<>>
    /\ map' = CollateChunk(map, Head(frequencies))
    /\ frequencies' = Tail(frequencies)
    /\ UNCHANGED <<args, threads, bytes, pc, chunks, offsets, todo, miss,
                   strings_index, addresses, addresses_index, buckets,
                   base_addresses, num_candidates, sorted, result, previous>>

\* the fold is over: collated is the accumulator
Collated ==
    /\ pc = "collate_frequencies"
    /\ frequencies = <<>>
    /\ pc' = "collated"
    /\ UNCHANGED <<args, threads, bytes, chunks, offsets, todo, miss,
                   strings_index, addresses, addresses_index, buckets,
                   base_addresses, num_candidates, sorted, result, previous,
                   frequencies, map>>

\* get_unique_addresses: the keys of count 1, in the order the parallel
\* iterator of the map gives; Self { addresses: unique }
GetUniqueAddresses ==
    /\ pc = "collated"
    /\ LET unique == {k \in DOMAIN map : map[k] = 1}
       IN  addresses' \in {v \in [1..Cardinality(unique) -> unique] :
                              {v[i] : i \in 1..Cardinality(unique)} = unique}
    /\ pc' = "addresses_returned"
    /\ UNCHANGED <<args, threads, bytes, chunks, offsets, todo, miss,
                   strings_index, addresses_index, buckets, base_addresses,
                   num_candidates, sorted, result, previous, frequencies,
                   map>>

InitCollate ==
    /\ \E in \in {i \in AddressesInputs : i.threads = 1} :
          /\ args = in.args
          /\ threads = in.threads
          /\ bytes = in.bytes
    /\ pc = "read_addresses"
    /\ chunks = {}
    /\ offsets = {}
    /\ todo = {}
    /\ miss = {}
    /\ strings_index = <<>>
    /\ addresses = <<>>
    /\ addresses_index = <<>>
    /\ buckets = {}
    /\ base_addresses = <<>>
    /\ num_candidates = 0
    /\ sorted = <<>>
    /\ result = <<>>
    /\ previous = <<>>
    /\ frequencies = <<>>
    /\ map = <<>>

NextCollate ==
    \/ ReadAddressesStep
    \/ GetFreqencies
    \/ CollateFrequencies
    \/ Collated
    \/ GetUniqueAddresses

SpecCollate == InitCollate /\ [][NextCollate]_vars

(***************************************************************************)
(* C28.  collate_frequencies of src/rbase/src/addresses.rs: the collated   *)
(* count of every value is the sum of its counts in the maps of the fold,  *)
(* the number of its occurrences in the buffer, however the fold split the *)
(* Vec.                                                                    *)
(***************************************************************************)
C28_CollatedIsOccurrences ==
    pc = "collated" =>
        /\ DOMAIN map = {addresses[i] : i \in 1..Len(addresses)}
        /\ \A k \in DOMAIN map :
              map[k] = Cardinality({i \in 1..Len(addresses) : addresses[i] = k})

(***************************************************************************)
(* The module Strings of src/rbase/src/strings.rs: Strings::new.  Here     *)
(* addresses is the Vec of the string offsets found, in the order of the   *)
(* chunks, and strings_index the HashMap index.                            *)
(***************************************************************************)
\* [a-zA-Z0-9_]
InWordClass(x) ==
    \/ 48 <= x /\ x <= 57
    \/ 65 <= x /\ x <= 90
    \/ 97 <= x /\ x <= 122
    \/ x = 95

\* get_overlapping_chunks: the chunks in the order of their offsets, each
\* bytes[i..i + chunk_size + overlap], or bytes[i..] when that passes the end
OverlappingChunks(limit, chunk_size, overlap) ==
    [j \in 1..((limit + chunk_size - 1) \div chunk_size) |->
        LET i == (j - 1) * chunk_size
            end == i + chunk_size + overlap
        IN  [offset |-> i,
             len |-> IF end >= limit THEN limit - i ELSE end - i]]

\* the lengths of the matches of "([a-zA-Z0-9_]{min,max})\0" that start at
\* position s of the chunk
WordMatchLens(b, chunk, s, min, max) ==
    {L \in min..max :
        /\ s + L < chunk.len
        /\ ByteAt(b, chunk.offset + s + L) = 0
        /\ \A j \in 0..(L - 1) : InWordClass(ByteAt(b, chunk.offset + s + j))}

\* find_string_addresses_in_chunk from position i of the chunk on:
\* re.find(&bytes[i..]), push chunk_offset + i + m.start(), i += m.end()
RECURSIVE FindStringAddressesInChunk(_, _, _, _, _)
FindStringAddressesInChunk(b, chunk, i, min, max) ==
    LET starts == {s \in i..(chunk.len - 1) :
                      WordMatchLens(b, chunk, s, min, max) # {}}
    IN  IF starts = {} THEN <<>>
        ELSE LET s == Min(starts)
                 e == s + Max(WordMatchLens(b, chunk, s, min, max)) + 1
             IN  <<TryFrom(chunk.offset + s, N)>>
                     \o FindStringAddressesInChunk(b, chunk, e, min, max)

\* .flatten().collect(): the Vecs of the chunks one after the other
RECURSIVE Flatten(_)
Flatten(vs) == IF vs = <<>> THEN <<>> ELSE Head(vs) \o Flatten(Tail(vs))

\* Vec::dedup: of consecutive equal elements the first one stays
RECURSIVE Dedup(_)
Dedup(v) ==
    IF Len(v) <= 1 THEN v
    ELSE IF v[Len(v)] = v[Len(v) - 1] THEN Dedup(SubSeq(v, 1, Len(v) - 1))
    ELSE Append(Dedup(SubSeq(v, 1, Len(v) - 1)), v[Len(v)])

\* index_strings_by_page_offset: the fold over the Vec, push or insert
RECURSIVE IndexStringsByPageOffset(_)
IndexStringsByPageOffset(v) ==
    IF v = <<>> THEN <<>>
    ELSE LET index == IndexStringsByPageOffset(SubSeq(v, 1, Len(v) - 1))
             pointer == v[Len(v)]
         IN  IF PageOffset(pointer) \in DOMAIN index
             THEN Push(index, PageOffset(pointer), pointer)
             ELSE Insert(index, PageOffset(pointer), pointer)

\* Strings::new up to the collect: step_by(0) and Regex::new(..).unwrap()
\* panic as in main.rs
FindStringAddresses ==
    /\ pc = "strings_new"
    /\ LET chunk_size == bytes.len \div threads
           cs == OverlappingChunks(bytes.len, chunk_size,
                                   args.max_string_length - 1)
       IN  IF chunk_size = 0
              \/ args.min_string_length > args.max_string_length
           THEN /\ pc' = "panicked"
                /\ addresses' = addresses
           ELSE /\ pc' = "dedup"
                /\ addresses' =
                      Flatten([j \in 1..Len(cs) |->
                          FindStringAddressesInChunk(bytes, cs[j], 0,
                              args.min_string_length, args.max_string_length)])
    /\ UNCHANGED <<args, threads, bytes, chunks, offsets, todo, miss,
                   strings_index, addresses_index, buckets, base_addresses,
                   num_candidates, sorted, result, previous, frequencies,
                   map>>

\* addresses.dedup()
DedupAddresses ==
    /\ pc = "dedup"
    /\ addresses' = Dedup(addresses)
    /\ pc' = "index_strings_by_page_offset"
    /\ UNCHANGED <<args, threads, bytes, chunks, offsets, todo, miss,
                   strings_index, addresses_index, buckets, base_addresses,
                   num_candidates, sorted, result, previous, frequencies,
                   map>>

\* Self { index }
IndexStrings ==
    /\ pc = "index_strings_by_page_offset"
    /\ strings_index' = IndexStringsByPageOffset(addresses)
    /\ pc' = "strings_returned"
    /\ UNCHANGED <<args, threads, bytes, chunks, offsets, todo, miss,
                   addresses, addresses_index, buckets, base_addresses,
                   num_candidates, sorted, result, previous, frequencies,
                   map>>

\* --min 1 --max 5 on 16 bytes: one-letter strings at some of the offsets
\* 1, 3, 5, 8, 10, 12, 14
StringsInputs ==
    {[args |-> Args(FALSE, FALSE, 1, 5, 100000, 1000000), threads |-> t,
      bytes |-> Buffer(16, Idents(offs, 1))] :
        t \in 1..MaxThreads, offs \in SUBSET {1, 3, 5, 8, 10, 12, 14}}

InitStrings ==
    /\ \E in \in StringsInputs :
          /\ args = in.args
          /\ threads = in.threads
          /\ bytes = in.bytes
    /\ pc = "strings_new"
    /\ chunks = {}
    /\ offsets = {}
    /\ todo = {}
    /\ miss = {}
    /\ strings_index = <<>>
    /\ addresses = <<>>
    /\ addresses_index = <<>>
    /\ buckets = {}
    /\ base_addresses = <<>>
    /\ num_candidates = 0
    /\ sorted = <<>>
    /\ result = <<>>
    /\ previous = <<>>
    /\ frequencies = <<>>
    /\ map = <<>>

NextStrings ==
    \/ FindStringAddresses
    \/ DedupAddresses
    \/ IndexStrings

SpecStrings == InitStrings /\ [][NextStrings]_vars

(***************************************************************************)
(* C29.  Strings::new of src/rbase/src/strings.rs: after the dedup step    *)
(* every string offset is in the Vec once, and in the index once, also     *)
(* when two chunks found two or more strings of their overlap.             *)
(***************************************************************************)
C29_DedupLeavesNoDuplicate ==
    /\ pc \in {"index_strings_by_page_offset", "strings_returned"} =>
          \A i, j \in 1..Len(addresses) :
              addresses[i] = addresses[j] => i = j
    /\ pc = "strings_returned" =>
          \A v \in Values(strings_index) : Entries(strings_index, v) = 1

(***************************************************************************)
(* The module Base of src/src/base.rs: Base::new on a Strings index and    *)
(* the Vec of Addresses::get_addresses.  Here strings_index is the index   *)
(* of strings, addresses the Vec, base_addresses the Vec of the candidates *)
(* of all the pairs, frequencies the maps of the parallel fold and map the *)
(* collated map.                                                           *)
(***************************************************************************)
\* the closure of get_base_addresses for one ptr: ptr - s for the strings s
\* of its page offset with ptr > s, in the order of the bucket
RECURSIVE BasesOf(_, _)
BasesOf(ptr, strs) ==
    IF strs = <<>> THEN <<>>
    ELSE (IF Ge(ptr, Head(strs)) /\ ptr # Head(strs)
          THEN <<Sub(ptr, Head(strs))>> ELSE <<>>)
         \o BasesOf(ptr, Tail(strs))

\* get_base_addresses: map, flatten, collect over the Vec of addresses
GetBaseAddressesOf(strs, list) ==
    Flatten([i \in 1..Len(list) |->
        IF PageOffset(list[i]) \in DOMAIN strs
        THEN BasesOf(list[i], strs[PageOffset(list[i])])
        ELSE <<>>])

\* one step of the fold of collate_candidate_base_address_frequencies:
\* map.insert(base, *v + count) or map.insert(base, count)
CollateCandidateChunk(acc, base_count) ==
    [base \in DOMAIN acc \cup DOMAIN base_count |->
        (IF base \in DOMAIN acc THEN acc[base] ELSE 0)
        + (IF base \in DOMAIN base_count THEN base_count[base] ELSE 0)]

\* Base::new: get_base_addresses and num_candidates
GetBaseAddresses ==
    /\ pc = "base_new"
    /\ base_addresses' = GetBaseAddressesOf(strings_index, addresses)
    /\ num_candidates' = Len(base_addresses')
    /\ pc' = "candidate_frequencies"
    /\ UNCHANGED <<args, threads, bytes, chunks, offsets, todo, miss,
                   strings_index, addresses, addresses_index, buckets,
                   sorted, result, previous, frequencies, map>>

\* get_candidate_base_address_frequencies: the fold splits the Vec where
\* it likes
GetCandidateFrequencies ==
    /\ pc = "candidate_frequencies"
    /\ \E cuts \in SUBSET (1..(Len(base_addresses) - 1)) :
          frequencies' = Partials(base_addresses, cuts)
    /\ pc' = "collate_candidates"
    /\ UNCHANGED <<args, threads, bytes, chunks, offsets, todo, miss,
                   strings_index, addresses, addresses_index, buckets,
                   base_addresses, num_candidates, sorted, result, previous,
                   map>>

\* collate_candidate_base_address_frequencies: the next map of the Vec
CollateCandidates ==
    /\ pc = "collate_candidates"
    /\ frequencies # <<>>
    /\ map' = CollateCandidateChunk(map, Head(frequencies))
    /\ frequencies' = Tail(frequencies)
    /\ UNCHANGED <<args, threads, bytes, pc, chunks, offsets, todo, miss,
                   strings_index, addresses, addresses_index, buckets,
                   base_addresses, num_candidates, sorted, result, previous>>

\* get_ordered_base_addresses, then sorted.first().unwrap(), which panics
\* on an empty Vec
OrderAndReturn ==
    /\ pc = "collate_candidates"
    /\ frequencies = <<>>
    /\ sorted' \in SortBy({<<base, map[base]>> : base \in DOMAIN map})
    /\ IF sorted' = <<>>
       THEN /\ pc' = "panicked"
            /\ result' = result
       ELSE /\ pc' = "base_returned"
            /\ result' = <<"Some", sorted'[1][1]>>
    /\ UNCHANGED <<args, threads, bytes, chunks, offsets, todo, miss,
                   strings_index, addresses, addresses_index, buckets,
                   base_addresses, num_candidates, previous, frequencies,
                   map>>

\* an index of none, one or two strings of page offset 0x100, and a Vec of
\* up to 3 addresses, each 0x41, 0x100, 0x8100 or 0x9100
InitBase ==
    /\ args = BaseArgs(FALSE, FALSE)
    /\ threads = 1
    /\ bytes = Buffer(0, <<>>)
    /\ pc = "base_new"
    /\ chunks = {}
    /\ offsets = {}
    /\ todo = {}
    /\ miss = {}
    /\ \E strs \in {<<>>, <<256>>, <<4352>>, <<256, 4352>>} :
          strings_index =
              IndexStringsByPageOffset([i \in 1..Len(strs) |->
                                           TryFrom(strs[i], 4)])
    /\ \E n \in 0..3 : \E list \in [1..n -> {65, 256, 33024, 37120}] :
          addresses = [i \in 1..n |-> TryFrom(list[i], 4)]
    /\ addresses_index = <<>>
    /\ buckets = {}
    /\ base_addresses = <<>>
    /\ num_candidates = 0
    /\ sorted = <<>>
    /\ result = <<>>
    /\ previous = <<>>
    /\ frequencies = <<>>
    /\ map = <<>>

NextBase ==
    \/ GetBaseAddresses
    \/ GetCandidateFrequencies
    \/ CollateCandidates
    \/ OrderAndReturn

SpecBase == InitBase /\ [][NextBase]_vars

(***************************************************************************)
(* C30.  Base::new of src/src/base.rs: when no pair of a string and an     *)
(* address gives a candidate, the run ends with "no base found", it does   *)
(* not abort.                                                              *)
(***************************************************************************)
C30_NoCandidateIsNoBase ==
    (pc \in {"base_returned", "panicked"} /\ num_candidates = 0) =>
        (pc = "base_returned" /\ result = None)

====
